---- MODULE Spec2Model ----
(***************************************************************************)
(* Model of src/transform/transformer.ts: the compile-time rewriting of    *)
(* ask / llm / define call-forms, the prologue injection done by update,   *)
(* the sidecar written by saveInfo, and the two module-level accumulators  *)
(* (imports, functions) that survive from one transform to the next.       *)
(*                                                                         *)
(* Representation.  A name or a text is a sequence of string pieces (its   *)
(* concatenation), so that `name + '.ts'` is Append(name, ".ts").  A path  *)
(* is a sequence of such components.  An AST node is a record              *)
(*   [kind, name, targs, kids]                                             *)
(* where a call keeps its callee expression in kids[1] and its arguments   *)
(* in Tail(kids), and targs is the list of its type arguments.             *)
(***************************************************************************)
EXTENDS Integers, Sequences, FiniteSets, TLC

VARIABLES functions, imports, disk, pass

vars == <<functions, imports, disk, pass>>

\* Largest number of import declarations left pending after a transform.
MaxPending == 3

MODULE_NAME == <<"ts-askit">>

----------------------------------------------------------------------------
\* AST constructors (ts.factory)

Node(k, n, t, c) == [kind |-> k, name |-> n, targs |-> t, kids |-> c]

createIdentifier(n) == Node("Identifier", n, <<>>, <<>>)

createStringLiteral(t) == Node("StringLiteral", t, <<>>, <<>>)

createArrayLiteralExpression(elems) == Node("ArrayLiteral", <<>>, <<>>, elems)

createPropertyAccessExpression(obj, n) ==
    Node("PropertyAccess", n, <<>>, <<obj>>)

createCallExpression(expr, targs, args) ==
    Node("CallExpression", <<>>, targs, <<expr>> \o args)

createPropertyAssignment(n, init) == Node("PropertyAssignment", n, <<>>, <<init>>)

createObjectLiteralExpression(props) == Node("ObjectLiteral", <<>>, <<>>, props)

createImportDeclaration(n, moduleSpecifier) ==
    Node("ImportDeclaration", n, <<>>, <<moduleSpecifier>>)

ExpressionStatement(e) == Node("ExpressionStatement", <<>>, <<>>, <<e>>)

isCallExpression(node) == node.kind = "CallExpression"

isIdentifier(node) == node.kind = "Identifier"

isStringLiteralLike(node) == node.kind = "StringLiteral"

expression(node) == node.kids[1]

arguments(node) == Tail(node.kids)

updateCallExpression(node, expr, targs, args) ==
    [node EXCEPT !.targs = targs, !.kids = <<expr>> \o args]

----------------------------------------------------------------------------
\* path and fs

dirname(p) == SubSeq(p, 1, Len(p) - 1)

basename(p) == p[Len(p)]

join(dir, component) == Append(dir, component)

\* The disk is a function from the paths that exist to their content: <<>> for a
\* directory, a source file or a generated module, the written lines for a
\* sidecar.
existsSync(d, p) == p \in DOMAIN d

NoError == <<>>

\* fs.mkdirSync (not recursive): fails when the parent directory is missing.
mkdirSync(d, p) ==
    IF dirname(p) \in DOMAIN d
    THEN [disk |-> [q \in DOMAIN d \cup {p} |-> IF q = p THEN <<>> ELSE d[q]],
          err |-> NoError]
    ELSE [disk |-> d, err |-> <<"ENOENT">>]

\* Mutant: the write appends to what the file held.
writeFileSync_Appending(d, p, content) ==
    IF dirname(p) \in DOMAIN d
    THEN [disk |-> [q \in DOMAIN d \cup {p} |->
                      IF q = p THEN (IF p \in DOMAIN d THEN d[p] ELSE <<>>) \o content
                      ELSE d[q]],
          err |-> NoError]
    ELSE [disk |-> d, err |-> <<"ENOENT">>]

\* fs.writeFileSync: creates or overwrites the file.
writeFileSync(d, p, content) ==
    IF dirname(p) \in DOMAIN d
    THEN [disk |-> [q \in DOMAIN d \cup {p} |-> IF q = p THEN content ELSE d[q]],
          err |-> NoError]
    ELSE [disk |-> d, err |-> <<"ENOENT">>]

----------------------------------------------------------------------------
\* Collaborators imported by the transformer (template, type, function-name,
\* expression modules and the host type checker).

\* Interpolation markers of a template text and the variable each one names.
Markers == [m \in {"{{x}}", "{{y}}", "{{missingVar}}"} |->
              CASE m = "{{x}}" -> "x"
                [] m = "{{y}}" -> "y"
                [] OTHER -> "missingVar"]

RECURSIVE extractVariables(_)
extractVariables(text) ==
    IF text = <<>> THEN <<>>
    ELSE IF Head(text) \in DOMAIN Markers
         THEN <<Markers[Head(text)]>> \o extractVariables(Tail(text))
         ELSE extractVariables(Tail(text))

convertTemplate(text) ==
    [i \in 1..Len(text) |->
        IF text[i] \in DOMAIN Markers THEN Markers[text[i]] ELSE text[i]]

\* Types the descriptor synthesizer cannot encode.
Unrepresentable == {"() => void"}

convertToDynamicType(returnType) == Node("DynamicType", <<returnType>>, <<>>, <<>>)

makeTypeDirection(returnType) == <<"typedirection:", returnType>>

makeExpressionFromString(typeString) == Node("Expression", typeString, <<>>, <<>>)

generateUniqueFunctionName(parts) == <<"f_">> \o parts

getIdentifierValue(id) ==
    IF id.name = <<"examples">> THEN <<"example1">> ELSE <<>>

\* checker.getSymbolsInScope(node, Variable): the variables of the programs
\* under transformation, and the printed type of each.
getSymbolsInScope == {"x", "y"}

typeToString(sym) == "number"

printNode(node) == [printed |-> node]

JSONstringify(item) == [json |-> item]

----------------------------------------------------------------------------
\* Traversal state.  The visitor closes over `info` (one array per transform)
\* and writes the module-level `imports`; an exception in flight is `err`.
\* `log` is a history of what the two rewrite functions did to each call they
\* were handed, in traversal order: the call, the branch taken, the node
\* returned, and the sizes of `info` and `imports` when the function returned.

Ret(node, st) == [node |-> node, st |-> st]

Logged(st, call, how, out) ==
    [st EXCEPT !.log = Append(@, [call |-> call, how |-> how, out |-> out,
                                  nInfo |-> Len(st.info),
                                  nImports |-> Len(st.imports)])]

throwError(st, node, message) ==
    Ret(node, [Logged(st, node, "throw", node) EXCEPT !.err = message])

createRequire(jsName, name, modNames) ==
    Node("VariableStatement", jsName, <<>>,
         <<createPropertyAccessExpression(
             createCallExpression(createIdentifier(<<"require">>), <<>>,
                 [i \in 1..Len(modNames) |-> createStringLiteral(modNames[i])]),
             name)>>)

makeVariableMapObject(variables) ==
    createObjectLiteralExpression(
        [i \in 1..Len(variables) |->
            createPropertyAssignment(<<variables[i]>>,
                                     createIdentifier(<<variables[i]>>))])

\* Mutant: the module is looked up beside the source file, not in askit/.
makeModuleName_NoSubfolder(sourceFileName, name) ==
    [modulePath |-> join(dirname(sourceFileName), Append(name, ".ts")),
     moduleName |-> name]

makeModuleName(sourceFileName, name) ==
    [modulePath |-> join(join(dirname(sourceFileName), <<"askit">>),
                         Append(name, ".ts")),
     moduleName |-> name]

makeCall(moduleName, name, args) ==
    createCallExpression(
        createPropertyAccessExpression(createIdentifier(Append(moduleName, "_1")),
                                       name),
        <<>>, args)

makeSignature(name, type, symbols) ==
    Node("FunctionDeclaration", name, <<type>>,
         [i \in 1..Len(symbols) |->
             Node("Parameter", <<symbols[i]>>, <<typeToString(symbols[i])>>, <<>>)])

createTypeExpression(returnType) ==
    makeExpressionFromString(makeTypeDirection(returnType))

TypeParameterMessage == <<"expects exactly one type parameter">>

\* Mutant: the type-argument check comes before the literal check.
rewriteDefineCall_TypeCheckFirst(st, node) ==
    LET args == arguments(node) IN
    IF Len(node.targs) # 1
    THEN throwError(st, node, TypeParameterMessage)
    ELSE IF Len(args) > 0 /\ ~isStringLiteralLike(args[1])
    THEN Ret(node, Logged(st, node, "passthrough", node))
    ELSE IF node.targs[1] \in Unrepresentable
    THEN throwError(st, node, <<"unrepresentable type">>)
    ELSE LET typeExpression == createTypeExpression(node.targs[1])
             newNode == updateCallExpression(node, expression(node),
                            node.targs, <<typeExpression>> \o args)
         IN Ret(newNode, Logged(st, node, "define", newNode))

\* Mutant: a define rewrite pushes a metadata record too.
rewriteDefineCall_Recording(st, node) ==
    LET args == arguments(node) IN
    IF Len(args) > 0 /\ ~isStringLiteralLike(args[1])
    THEN Ret(node, Logged(st, node, "passthrough", node))
    ELSE IF Len(node.targs) # 1
    THEN throwError(st, node, TypeParameterMessage)
    ELSE IF node.targs[1] \in Unrepresentable
    THEN throwError(st, node, <<"unrepresentable type">>)
    ELSE LET typeExpression == createTypeExpression(node.targs[1])
             newNode == updateCallExpression(node, expression(node),
                            node.targs, <<typeExpression>> \o args)
             pushed == [st EXCEPT !.info = Append(@,
                           [signature |-> printNode(newNode),
                            desc |-> <<>>, params |-> <<>>,
                            name |-> <<"define">>, examples |-> <<>>])]
         IN Ret(newNode, Logged(pushed, node, "define", newNode))

rewriteDefineCall(st, node) ==
    LET args == arguments(node) IN
    IF Len(args) > 0 /\ ~isStringLiteralLike(args[1])
    THEN Ret(node, Logged(st, node, "passthrough", node))
    ELSE IF Len(node.targs) # 1
    THEN throwError(st, node, TypeParameterMessage)
    ELSE LET returnType == node.targs[1] IN
         IF returnType \in Unrepresentable
         THEN throwError(st, node, <<"unrepresentable type">>)
         ELSE LET typeExpression == createTypeExpression(returnType)
                  newNode == updateCallExpression(node, expression(node),
                                 node.targs, <<typeExpression>> \o args)
              IN Ret(newNode, Logged(st, node, "define", newNode))

rewriteAskCall(st, node, sourceFileName, d) ==
    LET args == arguments(node) IN
    IF Len(args) > 0 /\ ~isStringLiteralLike(args[1])
    THEN Ret(node, Logged(st, node, "passthrough", node))
    ELSE IF Len(node.targs) # 1
    THEN throwError(st, node, TypeParameterMessage)
    ELSE IF Len(args) = 0
    THEN throwError(st, node, <<"TypeError">>)   \* template is undefined
    ELSE
    LET template == args[1]
        variables == extractVariables(template.name)
        variableMapObject == makeVariableMapObject(variables)
        returnType == node.targs[1]
        examplesNode == IF Len(args) >= 2 THEN args[2]
                        ELSE createArrayLiteralExpression(<<>>)
        unknown == SelectSeq(variables, LAMBDA v : v \notin getSymbolsInScope)
    IN
    IF returnType \in Unrepresentable
    THEN throwError(st, node, <<"unrepresentable type">>)
    ELSE IF unknown # <<>>
    THEN throwError(st, node, <<"Unknown variable: ", unknown[1]>>)
    ELSE
    LET typeExpression == convertToDynamicType(returnType)
        varSymbols == variables
        paramTypeStrings == [i \in 1..Len(varSymbols) |-> typeToString(varSymbols[i])]
        returnTypeString == returnType
        name == generateUniqueFunctionName(
                    template.name \o <<"_">>
                    \o [i \in 1..(2 * Len(paramTypeStrings)) |->
                          IF i % 2 = 1 THEN paramTypeStrings[(i + 1) \div 2] ELSE "_"]
                    \o <<returnTypeString>>)
        callArgs == [i \in 1..Len(varSymbols) |-> createIdentifier(<<varSymbols[i]>>)]
        signature == printNode(makeSignature(name, returnType, varSymbols))
        params == [i \in 1..Len(varSymbols) |-> <<paramTypeStrings[i], varSymbols[i]>>]
        examples == IF Len(args) >= 2 /\ isIdentifier(args[2])
                    THEN getIdentifierValue(args[2]) ELSE <<>>
        pushed == [st EXCEPT !.info = Append(@,
                      [signature |-> signature,
                       desc |-> convertTemplate(template.name),
                       params |-> params,
                       name |-> name,
                       examples |-> examples])]
        mod == makeModuleName(sourceFileName, name)
    IN
    IF existsSync(d, mod.modulePath)
    THEN LET importStatement ==
                 createImportDeclaration(name,
                     createStringLiteral(<<"./askit/">> \o mod.moduleName))
             newNode == makeCall(mod.moduleName, name, callArgs)
             scheduled == [pushed EXCEPT !.imports = Append(@, importStatement)]
         IN Ret(newNode, Logged(scheduled, node, "REDIRECT", newNode))
    ELSE LET newNode == updateCallExpression(node, expression(node), node.targs,
                            <<typeExpression, template, examplesNode,
                              variableMapObject>>)
         IN Ret(newNode, Logged(pushed, node, "INLINE", newNode))

RECURSIVE visit(_, _, _, _), visitNodes(_, _, _, _)

\* ts.visitEachChild: the children left to right, rebuilt around the results.
visitEachChild(st, node, sourceFileName, d) ==
    LET r == visitNodes(st, node.kids, sourceFileName, d)
    IN Ret([node EXCEPT !.kids = r.nodes], r.st)

visit(st, node, sourceFileName, d) ==
    IF st.err # NoError THEN Ret(node, st)
    ELSE IF isCallExpression(node) /\ isIdentifier(expression(node))
            /\ expression(node).name \in {<<"llm">>, <<"ask">>}
    THEN rewriteAskCall(st, node, sourceFileName, d)
    ELSE IF isCallExpression(node) /\ isIdentifier(expression(node))
            /\ expression(node).name \in {<<"define">>}
    THEN rewriteDefineCall(st, node)
    ELSE visitEachChild(st, node, sourceFileName, d)

visitNodes(st, nodes, sourceFileName, d) ==
    IF nodes = <<>> THEN [nodes |-> <<>>, st |-> st]
    ELSE LET h == visit(st, Head(nodes), sourceFileName, d)
             t == visitNodes(h.st, Tail(nodes), sourceFileName, d)
         IN [nodes |-> <<h.node>> \o t.nodes, st |-> t.st]

TypeConstructors ==
    <<"type", "array", "string", "number", "boolean", "object", "union", "literal">>

ReplFile == <<"<repl>", ".ts">>

\* update: returns the node and the two accumulators as it leaves them.
update(node, d, pendingImports, pendingFunctions) ==
    IF ~existsSync(d, node.fileName) /\ basename(node.fileName) # ReplFile
    THEN [node |-> node, imports |-> pendingImports, functions |-> pendingFunctions]
    ELSE [node |-> [node EXCEPT !.statements =
                       pendingImports
                       \o [i \in 1..Len(TypeConstructors) |->
                             createRequire(<<"__", TypeConstructors[i], "__">>,
                                           <<TypeConstructors[i]>>,
                                           <<MODULE_NAME \o <<"/types">> >>)]
                       \o pendingFunctions
                       \o node.statements],
          imports |-> <<>>,
          functions |-> <<>>]

saveInfo(d, fileName, info) ==
    IF Len(info) = 0 THEN [disk |-> d, err |-> NoError]
    ELSE LET dirName == dirname(fileName)
             baseName == basename(fileName)
             jsonlDirName == join(dirName, <<"askit">>)
             made == IF ~existsSync(d, jsonlDirName) THEN mkdirSync(d, jsonlDirName)
                     ELSE [disk |-> d, err |-> NoError]
             jsonlPath == join(jsonlDirName, Append(baseName, ".jsonl"))
             jsonl == [i \in 1..Len(info) |-> JSONstringify(info[i])]
         IN IF made.err # NoError THEN made
            ELSE writeFileSync(made.disk, jsonlPath, jsonl)

----------------------------------------------------------------------------
\* The source units handed to the transformer.

Ask(callee, targs, args) ==
    ExpressionStatement(createCallExpression(createIdentifier(<<callee>>), targs, args))

AddTemplate == createStringLiteral(<<"Add ", "{{x}}", " and ", "{{y}}">>)

StaticTemplate == createStringLiteral(<<"static text">>)

Plain == Ask("print", <<>>, <<createIdentifier(<<"x">>)>>)

AddCall == Ask("ask", <<"number">>, <<AddTemplate>>)

StaticCall == Ask("llm", <<"number">>, <<StaticTemplate>>)

ExamplesCall == Ask("ask", <<"number">>, <<StaticTemplate, createIdentifier(<<"examples">>)>>)

NoTypeCall == Ask("ask", <<>>, <<StaticTemplate>>)

NonLiteralCall == Ask("ask", <<>>, <<createIdentifier(<<"prompt">>)>>)

NonLiteralDefine ==
    Ask("define", <<"number", "string">>, <<createIdentifier(<<"prompt">>)>>)

DefineCall == Ask("define", <<"number">>, <<StaticTemplate>>)

UnresolvedCall ==
    Ask("ask", <<"string">>, <<createStringLiteral(<<"Hello ", "{{missingVar}}">>)>>)

\* ask<number>(`static text`, [ask(`static text`)]): the inner call has no
\* type argument.
NestedCall ==
    Ask("ask", <<"number">>,
        <<StaticTemplate, createArrayLiteralExpression(<<NoTypeCall.kids[1]>>)>>)

\* define<number>(`static text`, llm<number>(`static text`))
NestedInDefine ==
    Ask("define", <<"number">>, <<StaticTemplate, StaticCall.kids[1]>>)

Proj == <<"proj">>

AFile == <<Proj, <<"a", ".ts">> >>

GenFile == <<Proj, <<"gen", ".ts">> >>

MemFile == << <<"mem">>, <<"gen", ".ts">> >>

ReplPath == <<Proj, ReplFile>>

SourceFile(fileName, statements) == [fileName |-> fileName, statements |-> statements]

Programs ==
    { <<Plain>>,
      <<Plain, AddCall>>,
      <<StaticCall, Plain, ExamplesCall>>,
      <<AddCall, DefineCall, StaticCall>>,
      <<StaticCall, NoTypeCall>>,
      <<NonLiteralCall, NonLiteralDefine, StaticCall>>,
      <<NestedCall>>,
      <<NestedInDefine>>,
      <<UnresolvedCall>> }

GeneratedPrograms ==
    { <<Plain>>, <<Plain, AddCall>>, <<StaticCall, NoTypeCall>> }

Files ==
    {SourceFile(AFile, p) : p \in Programs}
    \cup {SourceFile(f, p) : f \in {GenFile, MemFile, ReplPath}, p \in GeneratedPrograms}

\* The generated modules askgen may have left in proj/askit.
AddName ==
    generateUniqueFunctionName(AddTemplate.name \o <<"_", "number", "_", "number", "_", "number">>)

StaticName == generateUniqueFunctionName(StaticTemplate.name \o <<"_", "number">>)

AskitDir == <<Proj, <<"askit">> >>

ModulePaths == {makeModuleName(AFile, n).modulePath : n \in {AddName, StaticName}}

DiskWith(paths) == [p \in paths |-> <<>>]

NoPass ==
    [file |-> SourceFile(<<>>, <<>>), outcome |-> "none", error |-> NoError,
     result |-> SourceFile(<<>>, <<>>), visited |-> <<>>, info |-> <<>>,
     log |-> <<>>,
     importsBefore |-> <<>>, diskBefore |-> DiskWith({}), scheduled |-> <<>>]

Init ==
    /\ functions = <<>>
    /\ imports = <<>>
    /\ \E mods \in SUBSET ModulePaths :
         \E askit \in SUBSET {AskitDir} :
            /\ (mods # {} => askit # {})
            /\ disk = DiskWith({ <<Proj>>, AFile } \cup askit \cup mods)
    /\ pass = NoPass

\* One call of the transform the factory returns (lines 96-111): the visit of the
\* file's children, saveInfo, update; or the exception rethrown to the host.
Transformer(file) ==
    LET st0 == [info |-> <<>>, imports |-> imports, err |-> NoError, log |-> <<>>]
    IN \E v \in {visitNodes(st0, file.statements, file.fileName, disk)} :
       \E saved \in {IF v.st.err # NoError THEN [disk |-> disk, err |-> v.st.err]
                      ELSE saveInfo(disk, file.fileName, v.st.info)} :
       \E u \in {update([file EXCEPT !.statements = v.nodes], saved.disk,
                         v.st.imports, functions)} :
       LET threw == saved.err # NoError IN
       /\ Len(IF threw THEN v.st.imports ELSE u.imports) <= MaxPending
       /\ disk' = saved.disk
       /\ imports' = IF threw THEN v.st.imports ELSE u.imports
       /\ functions' = IF threw THEN functions ELSE u.functions
       /\ pass' = [file |-> file,
                   outcome |-> IF threw THEN "threw" ELSE "returned",
                   error |-> saved.err,
                   result |-> IF threw THEN SourceFile(<<>>, <<>>) ELSE u.node,
                   visited |-> v.nodes,
                   info |-> v.st.info,
                   log |-> v.st.log,
                   importsBefore |-> imports,
                   diskBefore |-> disk,
                   scheduled |-> SubSeq(v.st.imports, Len(imports) + 1,
                                        Len(v.st.imports))]

Next == \E file \in Files : Transformer(file)

Spec == Init /\ [][Next]_vars

----------------------------------------------------------------------------
\* Vocabulary of the properties.

Ran == pass.outcome # "none"

Returned == pass.outcome = "returned"

Threw == pass.outcome = "threw"

\* The skip rule applies to the unit of the last transform.
Skipped ==
    /\ Ran
    /\ pass.file.fileName \notin DOMAIN pass.diskBefore
    /\ pass.file.fileName[Len(pass.file.fileName)] # <<"<repl>", ".ts">>

CalleeIn(node, names) ==
    /\ node.kind = "CallExpression"
    /\ node.kids[1].kind = "Identifier"
    /\ node.kids[1].name \in names

AskNames == {<<"ask">>, <<"llm">>}

MarkerNames == AskNames \cup {<<"define">>}

LiteralFirst(node) == Len(node.kids) >= 2 /\ node.kids[2].kind = "StringLiteral"

NonLiteralFirst(node) == Len(node.kids) >= 2 /\ node.kids[2].kind # "StringLiteral"

\* The marker call-forms of a tree, wherever they occur, in source order.
RECURSIVE MarkersIn(_), MarkersInAll(_)
MarkersIn(node) ==
    (IF CalleeIn(node, MarkerNames) /\ LiteralFirst(node) THEN <<node>> ELSE <<>>)
    \o MarkersInAll(node.kids)

MarkersInAll(nodes) ==
    IF nodes = <<>> THEN <<>> ELSE MarkersIn(Head(nodes)) \o MarkersInAll(Tail(nodes))

Rewrites(hows) == SelectSeq(pass.log, LAMBDA e : e.how \in hows)

AskRewrites == Rewrites({"REDIRECT", "INLINE"})

ImportsOf(statements) == SelectSeq(statements, LAMBDA n : n.kind = "ImportDeclaration")

\* The eight bindings, by the name each one declares.
BindingNames ==
    << <<"__", "type", "__">>, <<"__", "array", "__">>, <<"__", "string", "__">>,
       <<"__", "number", "__">>, <<"__", "boolean", "__">>, <<"__", "object", "__">>,
       <<"__", "union", "__">>, <<"__", "literal", "__">> >>

SidecarPath(fileName) ==
    <<fileName[1], <<"askit">>, Append(fileName[Len(fileName)], ".jsonl")>>

\* The lines of the unit's sidecar on disk d, <<>> when there is none.
Sidecar(d, fileName) ==
    IF SidecarPath(fileName) \in DOMAIN d THEN d[SidecarPath(fileName)] ELSE <<>>

----------------------------------------------------------------------------
\* C1: a unit the skip rule applies to (its file is not on disk and is not
\* <repl>.ts) comes back from the transform exactly as it was given: no call
\* site rewritten, no prologue statement added.
C1_SkippedUnitReturnedUnchanged ==
    (Skipped /\ Returned) => pass.result = pass.file

\* C2: the statement list a non-skipped, completed transform returns is the
\* imports scheduled during this traversal, then the eight type-constructor
\* bindings in the fixed order, then the unit's own statements in their order.
C2_PrologueLayout ==
    (Returned /\ ~Skipped) =>
        LET out == pass.result.statements
            a == Len(pass.scheduled)
            k == Len(pass.visited)
        IN /\ Len(out) = a + 8 + k
           /\ SubSeq(out, 1, a) = pass.scheduled
           /\ \A i \in 1..8 : /\ out[a + i].kind = "VariableStatement"
                               /\ out[a + i].name = BindingNames[i]
           /\ SubSeq(out, a + 9, a + 8 + k) = pass.visited
           /\ \A i \in 1..k : pass.visited[i].kind = pass.file.statements[i].kind

\* Sizes of the two accumulators when the j-th logged call was handed over.
InfoBefore(j) == IF j = 1 THEN 0 ELSE pass.log[j - 1].nInfo

ImportsBefore(j) == IF j = 1 THEN Len(pass.importsBefore) ELSE pass.log[j - 1].nImports

Identifiers(names) ==
    [i \in 1..Len(names) |->
        [kind |-> "Identifier", name |-> <<names[i]>>, targs |-> <<>>, kids |-> <<>>]]

\* C3: each rewritten ask/llm call is a REDIRECT exactly when
\* <dir of the unit>/askit/<synthesized name>.ts is on disk when the transform
\* runs, and an INLINE otherwise.  A REDIRECT is a call of the imported symbol
\* on the variables' identifiers and schedules one import of that name from
\* './askit/<name>'; an INLINE keeps the callee, takes the arguments [type
\* descriptor, template, examples argument or empty array, variable map] and
\* schedules nothing.
C3_StrategyFollowsModuleExistence ==
    /\ \A j \in 1..Len(pass.log) :
          pass.log[j].how \in {"REDIRECT", "INLINE"} =>
            LET e == pass.log[j]
                rec == pass.info[e.nInfo]
                varNames == [i \in 1..Len(rec.params) |-> rec.params[i][2]]
                modulePath == <<pass.file.fileName[1], <<"askit">>,
                                Append(rec.name, ".ts")>>
            IN IF modulePath \in DOMAIN pass.diskBefore
               THEN /\ e.how = "REDIRECT"
                    /\ e.out.kind = "CallExpression"
                    /\ e.out.kids[1].kind = "PropertyAccess"
                    /\ e.out.kids[1].name = rec.name
                    /\ Tail(e.out.kids) = Identifiers(varNames)
                    /\ e.nImports = ImportsBefore(j) + 1
               ELSE /\ e.how = "INLINE"
                    /\ e.out.kind = "CallExpression"
                    /\ e.out.kids[1] = e.call.kids[1]
                    /\ Len(e.out.kids) = 5
                    /\ e.out.kids[2].kind = "DynamicType"
                    /\ e.out.kids[2].name = e.call.targs
                    /\ e.out.kids[3] = e.call.kids[2]
                    /\ e.out.kids[4] =
                          (IF Len(e.call.kids) >= 3 THEN e.call.kids[3]
                           ELSE [kind |-> "ArrayLiteral", name |-> <<>>,
                                 targs |-> <<>>, kids |-> <<>>])
                    /\ e.out.kids[5].kind = "ObjectLiteral"
                    /\ Len(e.out.kids[5].kids) = Len(varNames)
                    /\ \A i \in 1..Len(varNames) :
                          /\ e.out.kids[5].kids[i].name = <<varNames[i]>>
                          /\ e.out.kids[5].kids[i].kids = Identifiers(<<varNames[i]>>)
                    /\ e.nImports = ImportsBefore(j)
    /\ LET redirects == Rewrites({"REDIRECT"})
       IN /\ Len(pass.scheduled) = Len(redirects)
          /\ \A k \in 1..Len(redirects) :
                LET name == pass.info[redirects[k].nInfo].name
                IN /\ pass.scheduled[k].kind = "ImportDeclaration"
                   /\ pass.scheduled[k].name = name
                   /\ pass.scheduled[k].kids[1].name = <<"./askit/">> \o name

\* A transform that rewrote one call by REDIRECT and another by INLINE, one of
\* them with template variables.
C3_Witness ==
    /\ Rewrites({"REDIRECT"}) # <<>>
    /\ Rewrites({"INLINE"}) # <<>>
    /\ \E i \in 1..Len(pass.info) : pass.info[i].params # <<>>

\* C4: a completed transform flushes exactly one record per rewritten ask/llm
\* call, in traversal order, whether rewritten by REDIRECT or INLINE, and none
\* for a define call; the flushed records are the lines of the sidecar.
C4_OneRecordPerAskRewrite ==
    Returned =>
      /\ Len(pass.info) = Len(AskRewrites)
      /\ \A i \in 1..Len(AskRewrites) :
            LET call == AskRewrites[i].call
                text == call.kids[2].name
                name == pass.info[i].name
            IN /\ AskRewrites[i].nInfo = i
               /\ SubSeq(name, 2, 1 + Len(text)) = text
               /\ name[Len(name)] = call.targs[1]
      /\ \A j \in 1..Len(pass.log) :
            pass.log[j].how = "define" => pass.log[j].nInfo = InfoBefore(j)
      /\ pass.info # <<>> =>
            Sidecar(disk, pass.file.fileName)
              = [i \in 1..Len(pass.info) |-> [json |-> pass.info[i]]]

\* A completed transform with a REDIRECT, an INLINE and a define rewrite.
C4_Witness ==
    /\ Returned
    /\ Rewrites({"REDIRECT"}) # <<>>
    /\ Rewrites({"INLINE"}) # <<>>
    /\ Rewrites({"define"}) # <<>>

\* C6: a marker call whose first argument is present and is not a string
\* literal is handed back as the identical node, whatever its number of type
\* arguments: no error, no metadata record, no import.
C6_NonLiteralPassedThrough ==
    \A j \in 1..Len(pass.log) :
        LET e == pass.log[j]
        IN (CalleeIn(e.call, MarkerNames) /\ NonLiteralFirst(e.call)) =>
              /\ e.how = "passthrough"
              /\ e.out = e.call
              /\ e.nInfo = InfoBefore(j)
              /\ e.nImports = ImportsBefore(j)

\* A completed transform that met an ask call with no type argument and a
\* define call with two, both with a non-literal first argument, and kept both
\* in the returned unit.
C6_Witness ==
    /\ Returned
    /\ \E j, k \in 1..Len(pass.log) :
          /\ pass.log[j].how = "passthrough" /\ Len(pass.log[j].call.targs) = 0
          /\ CalleeIn(pass.log[j].call, AskNames)
          /\ pass.log[k].how = "passthrough" /\ Len(pass.log[k].call.targs) = 2
          /\ CalleeIn(pass.log[k].call, {<<"define">>})
          /\ \E i \in 1..Len(pass.result.statements) :
                pass.result.statements[i].kids = <<pass.log[j].call>>

\* C5: a unit holding a marker call-form with a string-literal first argument
\* and not exactly one type argument is aborted by the type-parameter error:
\* nothing is returned and the disk is left as it was.
C5_MissingTypeArgumentAborts ==
    (Ran /\ \E i \in 1..Len(MarkersInAll(pass.file.statements)) :
                Len(MarkersInAll(pass.file.statements)[i].targs) # 1)
    => /\ Threw
       /\ pass.error = <<"expects exactly one type parameter">>
       /\ disk = pass.diskBefore

\* C7 as stated: after each completed transform the unit's sidecar holds
\* exactly the records of that transform.
C7_SidecarHoldsExactlyThisPass ==
    Returned =>
        Sidecar(disk, pass.file.fileName)
          = [i \in 1..Len(pass.info) |-> [json |-> pass.info[i]]]

\* C7 amended: a completed transform with at least one record leaves exactly
\* its own records in the sidecar, nothing of an earlier transform; one with no
\* record leaves the sidecar as it found it.
C7_SidecarReplacedWhenRecords ==
    Returned =>
        IF pass.info # <<>>
        THEN Sidecar(disk, pass.file.fileName)
               = [i \in 1..Len(pass.info) |-> [json |-> pass.info[i]]]
        ELSE Sidecar(disk, pass.file.fileName)
               = Sidecar(pass.diskBefore, pass.file.fileName)

\* A completed transform that replaced an earlier transform's sidecar with
\* different records.
C7_Witness ==
    /\ Returned
    /\ pass.info # <<>>
    /\ Sidecar(pass.diskBefore, pass.file.fileName) # <<>>
    /\ Sidecar(pass.diskBefore, pass.file.fileName) # Sidecar(disk, pass.file.fileName)

\* C8: the prologue of a completed transform holds at most one import
\* declaration per synthesized name.
C8_ImportsDeduplicated ==
    (Returned /\ ~Skipped) =>
        LET imps == ImportsOf(pass.result.statements)
        IN \A i, j \in 1..Len(imps) : imps[i].name = imps[j].name => i = j

\* C9: in a completed transform the rewrite functions rewrote every marker
\* call-form of the unit exactly once, nested ones included: the calls they
\* rewrote are the marker call-forms of the tree, in source order.
C9_EveryMarkerRewrittenOnce ==
    Returned =>
        LET done == Rewrites({"REDIRECT", "INLINE", "define"})
        IN [i \in 1..Len(done) |-> done[i].call] = MarkersInAll(pass.file.statements)

\* C10: the pending-imports accumulator is empty whenever a transform begins,
\* that is, in every state between two transforms.
C10_AccumulatorEmptyBetweenTransforms ==
    imports = <<>>

====
